---- MODULE Spec2Model ----
(***************************************************************************)
(* State-machine model of the QoS Slicing application                      *)
(* (src/empower/apps/qosslicing/qosslicing.py, class DSCPStats).           *)
(*                                                                         *)
(* Python dicts are modelled as insertion-ordered association lists        *)
(* (sequences of [k, v] records) so that iteration order is the dict's     *)
(* insertion order.  Python lists are sequences.  The list objects held    *)
(* in a device snapshot are shared by reference with the aggregation map   *)
(* built in make_traffic_rules; the model keeps that sharing by letting    *)
(* the aggregation map hold, per code, the device whose list it aliases.   *)
(* Quantum values are Python floats; they are modelled as exact rationals  *)
(* <<numerator, denominator>> in lowest terms.                             *)
(***************************************************************************)
EXTENDS Integers, Sequences, FiniteSets, TLC

VARIABLES
    stats,          \* self.stats: ordered dict wtp -> packetStats
    traffic_rules,  \* self.traffic_rules: match fingerprint -> rewrite dscp
    wtps_count,     \* self.wtps_count
    connection,     \* the wtps of self.wtps whose .connection is set
    pending,        \* per wtp, the registered response callbacks not yet invoked
    wifi_slices,    \* self.context.wifi_slices: str(slice id) -> quantum
    sent,           \* what the last step emitted, in emission order
    ticks,          \* number of loop() runs so far
    last,           \* which operation the last step was
    ran,            \* the last step passed the barrier of make_traffic_rules
    responded,      \* per wtp, the responses handled since the last loop()
    cycleRuns,      \* barrier passes since the last loop()
    lastReported,   \* per wtp, the dscp map decoded from its latest response
    checks,         \* the check_traffic_rule_exists calls of the last step
    candidates,     \* the rules and slices built by the latest classification run
    classified,     \* the aggregated map the last step classified, if it ran
    msg,            \* the message value handed to the codec
    wire,           \* the bytes built from msg
    parsed          \* the value parsed back from wire

vars == <<stats, traffic_rules, wtps_count, connection, pending, wifi_slices,
          sent, ticks, last, ran, responded, cycleRuns, lastReported, checks,
          candidates, classified, msg, wire, parsed>>

codecVars == <<msg, wire, parsed>>

----------------------------------------------------------------------------
(* Bounds of the model *)

MaxTicks == 2

(* self.wtps, in the iteration order of self.wtps.values() *)
WtpOrder == <<"w1", "w2">>
WTPs == {WtpOrder[i] : i \in 1..Len(WtpOrder)}

(* Response payloads that devices report *)
Codes == {5, 44}
Counts == {200, 201, 601}
AvgSizes == {64}
MapEntries == [code : Codes, count : Counts, avg_packet_size : AvgSizes]
DscpMapArrays == {<<>>} \cup {<<e>> : e \in MapEntries}

----------------------------------------------------------------------------
(* Program constants *)

ACTIVATION_THRESHOLD == 200
INDIVIDUAL_SLICE == 600
ANY_IP_ADDRESS == <<0, 0, 0, 0>>
ANY_PORT == 0
ANY_PROTOCOL == 255
total_quantum == 10000

----------------------------------------------------------------------------
(* Insertion-ordered dicts *)

Has(d, key) == \E i \in 1..Len(d) : d[i].k = key
Get(d, key) == d[CHOOSE i \in 1..Len(d) : d[i].k = key].v
Put(d, key, val) ==
    IF Has(d, key)
    THEN [i \in 1..Len(d) |-> IF d[i].k = key THEN [k |-> key, v |-> val] ELSE d[i]]
    ELSE Append(d, [k |-> key, v |-> val])
KeysOf(d) == {d[i].k : i \in 1..Len(d)}

(* str(n) and int(s) on non-negative integers, strings as digit sequences *)
RECURSIVE StrOf(_)
StrOf(n) == IF n < 10 THEN <<n>> ELSE StrOf(n \div 10) \o <<n % 10>>

RECURSIVE IntOf(_)
IntOf(s) ==
    IF Len(s) = 1 THEN s[1]
    ELSE 10 * IntOf(SubSeq(s, 1, Len(s) - 1)) + s[Len(s)]

(* Exact rationals *)
RECURSIVE GCD(_, _)
GCD(a, b) == IF b = 0 THEN a ELSE GCD(b, a % b)
Rat(n, d) == LET g == GCD(n, d) IN <<n \div g, d \div g>>
RatAdd(x, y) == Rat(x[1] * y[2] + y[1] * x[2], x[2] * y[2])
RatMul(x, y) == Rat(x[1] * y[1], x[2] * y[2])
RatDiv(x, y) == Rat(x[1] * y[2], x[2] * y[1])

----------------------------------------------------------------------------
(* Lookup tables *)

(* faulty variant: code 16 is a group of its own, without a unit *)
group_map_OwnGroup16 ==
    0 :> 0 @@ 8 :> 8 @@ 16 :> 16 @@ 24 :> 24 @@ 32 :> 32 @@ 40 :> 24 @@
    48 :> 48 @@ 56 :> 48 @@ 10 :> 0 @@ 12 :> 0 @@ 14 :> 0 @@ 18 :> 0 @@
    20 :> 0 @@ 22 :> 0 @@ 26 :> 24 @@ 28 :> 24 @@ 30 :> 24 @@ 34 :> 32 @@
    36 :> 32 @@ 38 :> 32 @@ 46 :> 46 @@ 44 :> 46

group_map ==
    0 :> 0 @@ 8 :> 8 @@ 16 :> 0 @@ 24 :> 24 @@ 32 :> 32 @@ 40 :> 24 @@
    48 :> 48 @@ 56 :> 48 @@ 10 :> 0 @@ 12 :> 0 @@ 14 :> 0 @@ 18 :> 0 @@
    20 :> 0 @@ 22 :> 0 @@ 26 :> 24 @@ 28 :> 24 @@ 30 :> 24 @@ 34 :> 32 @@
    36 :> 32 @@ 38 :> 32 @@ 46 :> 46 @@ 44 :> 46

get_dscp_group(dscp) ==
    IF dscp \notin DOMAIN group_map THEN 0 ELSE group_map[dscp]

tos_to_dscp_map ==
    0 :> 0 @@ 8 :> 32 @@ 16 :> 64 @@ 24 :> 96 @@ 32 :> 128 @@ 40 :> 160 @@
    48 :> 192 @@ 56 :> 224 @@ 10 :> 40 @@ 12 :> 48 @@ 14 :> 56 @@ 18 :> 72 @@
    20 :> 80 @@ 22 :> 88 @@ 26 :> 104 @@ 28 :> 112 @@ 30 :> 120 @@
    34 :> 136 @@ 36 :> 144 @@ 38 :> 152 @@ 46 :> 184 @@ 44 :> 176

(* faulty variant: an unlisted code is shifted into the ToS byte *)
get_tos_Shifted(dscp) ==
    IF dscp \notin DOMAIN tos_to_dscp_map THEN 4 * dscp ELSE tos_to_dscp_map[dscp]

get_tos(dscp) ==
    IF dscp \notin DOMAIN tos_to_dscp_map THEN 0 ELSE tos_to_dscp_map[dscp]

(* faulty variant: background weighs as much as best effort *)
unit_map_FlatBackground ==
    8 :> <<1, 1>> @@ 0 :> <<1, 1>> @@ 24 :> <<3, 2>> @@ 32 :> <<2, 1>> @@
    46 :> <<3, 1>> @@ 48 :> <<4, 1>>

(* 0.5, 1, 1.5, 2, 3, 4 *)
unit_map ==
    8 :> <<1, 2>> @@ 0 :> <<1, 1>> @@ 24 :> <<3, 2>> @@ 32 :> <<2, 1>> @@
    46 :> <<3, 1>> @@ 48 :> <<4, 1>>

get_dscp_unit(dscp) == unit_map[get_dscp_group(dscp)]

(* hash() of a small non-negative int is the int itself *)
(* faulty variant: the dscp of the match is left out of the sum *)
get_hash_match_NoDscp(match) ==
    LET key == match.src_port + match.dst_port + match.protocol
        src_ip == match.src_ip[1] + match.src_ip[2] + match.src_ip[3] + match.src_ip[4]
        dst_ip == match.dst_ip[1] + match.dst_ip[2] + match.dst_ip[3] + match.dst_ip[4]
    IN key + src_ip + dst_ip

get_hash_match(match) ==
    LET key == match.src_port + match.dst_port + match.protocol + match.dscp
        src_ip == match.src_ip[1] + match.src_ip[2] + match.src_ip[3] + match.src_ip[4]
        dst_ip == match.dst_ip[1] + match.dst_ip[2] + match.dst_ip[3] + match.dst_ip[4]
    IN key + src_ip + dst_ip

----------------------------------------------------------------------------
(* Rule deduplicator.  Returns the method's result together with the       *)
(* table it leaves in self.traffic_rules.                                  *)

(* faulty variant: a changed rewrite is reported but not stored *)
check_traffic_rule_exists_NoStore(table, tr) ==
    LET key == get_hash_match(tr.match) IN
    IF key \in DOMAIN table
    THEN IF tr.dscp = table[key]
         THEN [ret |-> TRUE, table |-> table]
         ELSE [ret |-> FALSE, table |-> table]
    ELSE [ret |-> FALSE, table |-> (key :> tr.dscp) @@ table]

(* faulty variant: a changed rewrite evicts the fingerprint *)
check_traffic_rule_exists_Evict(table, tr) ==
    LET key == get_hash_match(tr.match) IN
    IF key \in DOMAIN table
    THEN IF tr.dscp = table[key]
         THEN [ret |-> TRUE, table |-> table]
         ELSE [ret |-> FALSE,
               table |-> [k \in DOMAIN table \ {key} |-> table[k]]]
    ELSE [ret |-> FALSE, table |-> (key :> tr.dscp) @@ table]

check_traffic_rule_exists(table, tr) ==
    LET key == get_hash_match(tr.match) IN
    IF key \in DOMAIN table
    THEN IF tr.dscp = table[key]
         THEN [ret |-> TRUE, table |-> table]
         ELSE [ret |-> FALSE, table |-> [table EXCEPT ![key] = tr.dscp]]
    ELSE [ret |-> FALSE, table |-> (key :> tr.dscp) @@ table]

----------------------------------------------------------------------------
(* Aggregation (make_traffic_rules, the loop over self.stats).             *)
(* acc.stats is self.stats; acc.dscpMap maps a code to the wtp whose       *)
(* snapshot list dscpMap[code] is: `dscpMap[code] = stat["dscp_map"][code]`*)
(* binds the very list object of the snapshot, and `dscpMap[code] += ...`  *)
(* on a list extends that object in place.                                 *)

AggregateCode(acc, wtp, code) ==
    IF ~Has(acc.dscpMap, code)
    THEN [acc EXCEPT !.dscpMap = Put(@, code, wtp)]
    ELSE LET owner == Get(acc.dscpMap, code)
             snap == Get(acc.stats, owner)
             extended == Get(snap.dscp_map, code)
                            \o Get(Get(acc.stats, wtp).dscp_map, code)
         IN [acc EXCEPT !.stats =
                Put(@, owner, [snap EXCEPT !.dscp_map = Put(@, code, extended)])]

RECURSIVE AggregateCodes(_, _, _)
AggregateCodes(acc, wtp, j) ==
    IF j = 0 THEN acc
    ELSE AggregateCode(AggregateCodes(acc, wtp, j - 1), wtp,
                       Get(acc.stats, wtp).dscp_map[j].k)

(* the devices of st visited in the order `order`, the first i of them *)
RECURSIVE AggregateOver(_, _, _)
AggregateOver(st, order, i) ==
    IF i = 0 THEN [stats |-> st, dscpMap |-> <<>>]
    ELSE AggregateCodes(AggregateOver(st, order, i - 1), order[i],
                        Len(Get(st, order[i]).dscp_map))

StatsOrder(st) == [i \in 1..Len(st) |-> st[i].k]

Aggregate(st) == AggregateOver(st, StatsOrder(st), Len(st))

(* the list dscpMap[code] after aggregation *)
AggregatedList(agg, code) ==
    Get(Get(agg.stats, Get(agg.dscpMap, code)).dscp_map, code)

(* dscpMap as the classifier sees it: ordered dict code -> list *)
AggregatedMap(agg) ==
    [i \in 1..Len(agg.dscpMap) |->
        [k |-> agg.dscpMap[i].k, v |-> AggregatedList(agg, agg.dscpMap[i].k)]]

----------------------------------------------------------------------------
(* Classification (make_traffic_rules, the loop over dscpMap) *)

CheckKind(table, tr) ==
    LET key == get_hash_match(tr.match) IN
    IF key \notin DOMAIN table THEN "new"
    ELSE IF table[key] = tr.dscp THEN "same" ELSE "changed"

(* faulty variant: the rule is queued whatever the deduplicator answers *)
ClassifyCode_AlwaysQueue(acc, dscp, packet_count) ==
    IF packet_count > ACTIVATION_THRESHOLD
    THEN LET individual == packet_count > INDIVIDUAL_SLICE
             dscp_slice == IF individual THEN dscp ELSE get_dscp_group(dscp)
             tos == IF individual THEN get_tos(dscp) ELSE get_tos(dscp_slice)
             match == [src_ip |-> ANY_IP_ADDRESS, dst_ip |-> ANY_IP_ADDRESS,
                       src_port |-> ANY_PORT, dst_port |-> ANY_PORT,
                       protocol |-> ANY_PROTOCOL, dscp |-> dscp]
             traffic_rule == [match |-> match, dscp |-> tos]
             chk == check_traffic_rule_exists(acc.table, traffic_rule)
         IN [table |-> chk.table,
             slices |-> Append(acc.slices, dscp_slice),
             traffic_rules |-> Append(acc.traffic_rules, traffic_rule),
             candidates |-> Append(acc.candidates,
                                   [rule |-> traffic_rule, slice |-> dscp_slice]),
             checks |-> Append(acc.checks,
                               [rule |-> traffic_rule,
                                kind |-> CheckKind(acc.table, traffic_rule),
                                ret |-> chk.ret])]
    ELSE acc

ClassifyCode(acc, dscp, packet_count) ==
    IF packet_count > ACTIVATION_THRESHOLD
    THEN LET individual == packet_count > INDIVIDUAL_SLICE
             dscp_slice == IF individual THEN dscp ELSE get_dscp_group(dscp)
             tos == IF individual THEN get_tos(dscp) ELSE get_tos(dscp_slice)
             match == [src_ip |-> ANY_IP_ADDRESS, dst_ip |-> ANY_IP_ADDRESS,
                       src_port |-> ANY_PORT, dst_port |-> ANY_PORT,
                       protocol |-> ANY_PROTOCOL, dscp |-> dscp]
             traffic_rule == [match |-> match, dscp |-> tos]
             chk == check_traffic_rule_exists(acc.table, traffic_rule)
         IN [table |-> chk.table,
             slices |-> Append(acc.slices, dscp_slice),
             traffic_rules |-> IF ~chk.ret
                               THEN Append(acc.traffic_rules, traffic_rule)
                               ELSE acc.traffic_rules,
             candidates |-> Append(acc.candidates,
                                   [rule |-> traffic_rule, slice |-> dscp_slice]),
             checks |-> Append(acc.checks,
                               [rule |-> traffic_rule,
                                kind |-> CheckKind(acc.table, traffic_rule),
                                ret |-> chk.ret])]
    ELSE acc

RECURSIVE Classify(_, _, _)
Classify(table, dscpMap, i) ==
    IF i = 0
    THEN [table |-> table, slices |-> <<>>, traffic_rules |-> <<>>,
          candidates |-> <<>>, checks |-> <<>>]
    ELSE ClassifyCode(Classify(table, dscpMap, i - 1),
                      dscpMap[i].k, dscpMap[i].v[1])

----------------------------------------------------------------------------
(* Quantum allocator.  ctx carries self.context.wifi_slices and the        *)
(* messages emitted so far in the current step.                            *)

(* context.upsert_wifi_slice: creates the slice or replaces its properties *)
(* context.delete_wifi_slice: the slice is no longer provisioned *)
delete_wifi_slice(slices, slice_id) ==
    [key \in DOMAIN slices \ {StrOf(slice_id)} |-> slices[key]]

(* del_slices is defined by the application and called from nowhere *)
del_slices(ctx, dscp) ==
    [wifi_slices |-> delete_wifi_slice(ctx.wifi_slices, dscp),
     sent |-> Append(ctx.sent, [type |-> "delete", slice_id |-> dscp])]

upsert_wifi_slice(slices, slice_id, properties) ==
    (StrOf(slice_id) :> properties) @@ slices

set_slices(ctx, dscp, quantum) ==
    LET properties == [quantum |-> quantum] IN
    [wifi_slices |-> upsert_wifi_slice(ctx.wifi_slices, dscp, properties),
     sent |-> Append(ctx.sent,
                     [type |-> "upsert", slice_id |-> dscp, quantum |-> quantum])]

RECURSIVE SumUnits(_)
SumUnits(S) ==
    IF S = {} THEN <<0, 1>>
    ELSE LET x == CHOOSE y \in S : TRUE
         IN RatAdd(SumUnits(S \ {x}), get_dscp_unit(x))

(* the elements of a set of integers, one after the other *)
RECURSIVE SeqOfSet(_)
SeqOfSet(S) ==
    IF S = {} THEN <<>>
    ELSE LET x == CHOOSE y \in S : \A z \in S : y <= z
         IN <<x>> \o SeqOfSet(S \ {x})

SliceQuantum(dscp_slice, unit_quantum) ==
    RatMul(get_dscp_unit(dscp_slice), unit_quantum)

(* faulty variant: every slice is upserted in every run *)
AllocateSlice_Always(ctx, dscp_slice, unit_quantum) ==
    set_slices(ctx, dscp_slice, SliceQuantum(dscp_slice, unit_quantum))

AllocateSlice(ctx, dscp_slice, unit_quantum) ==
    LET quantum == SliceQuantum(dscp_slice, unit_quantum) IN
    IF StrOf(dscp_slice) \in DOMAIN ctx.wifi_slices
    THEN IF quantum # ctx.wifi_slices[StrOf(dscp_slice)].quantum
         THEN set_slices(ctx, dscp_slice, quantum)
         ELSE ctx
    ELSE set_slices(ctx, dscp_slice, quantum)

RECURSIVE AllocateSlices(_, _, _, _)
AllocateSlices(ctx, order, unit_quantum, i) ==
    IF i = 0 THEN ctx
    ELSE AllocateSlice(AllocateSlices(ctx, order, unit_quantum, i - 1),
                       order[i], unit_quantum)

(* faulty variant: the existing slices are left out of the rebalancing *)
AllSlices_TargetsOnly(ctx, slices) ==
    {slices[i] : i \in 1..Len(slices)}

AllSlices(ctx, slices) ==
    {slices[i] : i \in 1..Len(slices)}
        \cup {IntOf(key) : key \in DOMAIN ctx.wifi_slices}

(* faulty variant: a slice that is not a target of the run is deleted *)
make_slices_Prune(ctx, slices) ==
    LET targets == {slices[i] : i \in 1..Len(slices)}
        stale == SeqOfSet({IntOf(key) : key \in DOMAIN ctx.wifi_slices} \ targets)
        pruned == IF stale = <<>> THEN ctx ELSE del_slices(ctx, stale[1])
        total_slice_share == SumUnits(targets)
        unit_quantum == RatDiv(<<total_quantum, 1>>, total_slice_share)
        order == SeqOfSet(targets)
    IN AllocateSlices(pruned, order, unit_quantum, Len(order))

make_slices(ctx, slices) ==
    LET all == AllSlices(ctx, slices)
        total_slice_share == SumUnits(all)
        unit_quantum == RatDiv(<<total_quantum, 1>>, total_slice_share)
        order == SeqOfSet(all)
    IN AllocateSlices(ctx, order, unit_quantum, Len(order))

----------------------------------------------------------------------------
(* Rule delivery *)

RECURSIVE SendRulesTo(_, _, _, _)
SendRulesTo(out, wtp, rules, j) ==
    IF j = 0 THEN out
    ELSE Append(SendRulesTo(out, wtp, rules, j - 1),
                [type |-> "rule", wtp |-> wtp, dscp |-> rules[j].dscp,
                 match |-> rules[j].match])

(* faulty variant: the connection of a device is not looked at *)
RECURSIVE send_traffic_rules_All(_, _, _, _)
send_traffic_rules_All(out, conn, rules, i) ==
    IF i = 0 THEN out
    ELSE SendRulesTo(send_traffic_rules_All(out, conn, rules, i - 1),
                     WtpOrder[i], rules, Len(rules))

RECURSIVE send_traffic_rules(_, _, _, _)
send_traffic_rules(out, conn, rules, i) ==
    IF i = 0 THEN out
    ELSE LET before == send_traffic_rules(out, conn, rules, i - 1) IN
         IF WtpOrder[i] \notin conn THEN before
         ELSE SendRulesTo(before, WtpOrder[i], rules, Len(rules))

----------------------------------------------------------------------------
(* make_traffic_rules: barrier, aggregation, classification, allocation,   *)
(* delivery.  Returns everything the method leaves behind.                 *)

BarrierOpen(st, count) == Len(st) = count

(* faulty variant: the rules are pushed before the slices are made *)
make_traffic_rules_RulesFirst(st, table, count, slices, conn) ==
    IF ~BarrierOpen(st, count)
    THEN [ran |-> FALSE, stats |-> st, table |-> table, wifi_slices |-> slices,
          sent |-> <<>>, candidates |-> <<>>, checks |-> <<>>, dscpMap |-> <<>>]
    ELSE LET agg == Aggregate(st)
             dscpMap == AggregatedMap(agg)
             cls == Classify(table, dscpMap, Len(dscpMap))
             out == IF Len(cls.traffic_rules) > 0
                    THEN send_traffic_rules(<<>>, conn, cls.traffic_rules,
                                            Len(WtpOrder))
                    ELSE <<>>
             ctx0 == [wifi_slices |-> slices, sent |-> out]
             ctx1 == IF Len(cls.slices) > 0 THEN make_slices(ctx0, cls.slices)
                     ELSE ctx0
         IN [ran |-> TRUE, stats |-> agg.stats, table |-> cls.table,
             wifi_slices |-> ctx1.wifi_slices, sent |-> ctx1.sent,
             candidates |-> cls.candidates, checks |-> cls.checks,
             dscpMap |-> dscpMap]

make_traffic_rules(st, table, count, slices, conn) ==
    IF ~BarrierOpen(st, count)
    THEN [ran |-> FALSE, stats |-> st, table |-> table, wifi_slices |-> slices,
          sent |-> <<>>, candidates |-> <<>>, checks |-> <<>>, dscpMap |-> <<>>]
    ELSE LET agg == Aggregate(st)
             dscpMap == AggregatedMap(agg)
             cls == Classify(table, dscpMap, Len(dscpMap))
             ctx0 == [wifi_slices |-> slices, sent |-> <<>>]
             ctx1 == IF Len(cls.slices) > 0 THEN make_slices(ctx0, cls.slices)
                     ELSE ctx0
             out == IF Len(cls.traffic_rules) > 0
                    THEN send_traffic_rules(ctx1.sent, conn, cls.traffic_rules,
                                            Len(WtpOrder))
                    ELSE ctx1.sent
         IN [ran |-> TRUE, stats |-> agg.stats, table |-> cls.table,
             wifi_slices |-> ctx1.wifi_slices, sent |-> out,
             candidates |-> cls.candidates, checks |-> cls.checks,
             dscpMap |-> dscpMap]

----------------------------------------------------------------------------
(* handle_response: decoding of the response into packetStats *)

RECURSIVE DecodeDscpMap(_, _)
DecodeDscpMap(arr, i) ==
    IF i = 0 THEN <<>>
    ELSE Put(DecodeDscpMap(arr, i - 1), arr[i].code,
             <<arr[i].count, arr[i].avg_packet_size>>)

PacketsOf(response) ==
    [i \in 1..Len(response.stats) |-> response.stats[i]]

PacketStats(response) ==
    [dscp_map_count |-> response.dscp_map_count,
     dscp_stats_count |-> response.nb_entries,
     packets |-> PacketsOf(response),
     dscp_map |-> DecodeDscpMap(response.dscp_map, Len(response.dscp_map))]

StoreSnapshot(st, wtp, packetStats) ==
    LET st1 == IF ~Has(st, wtp) THEN Put(st, wtp, <<>>) ELSE st
    IN Put(st1, wtp, packetStats)

Response(wtp, arr) ==
    [device |-> wtp, nb_entries |-> 0, dscp_map_count |-> Len(arr),
     stats |-> <<>>, dscp_map |-> arr]

(* what handle_response emits: the output of make_traffic_rules, then the  *)
(* unconditional self.handle_callbacks()                                   *)
(* faulty variant: the callbacks run only when the classification ran *)
ResponseOutput_OnRun(r) ==
    IF r.ran THEN Append(r.sent, [type |-> "callbacks"]) ELSE r.sent

ResponseOutput(r) == Append(r.sent, [type |-> "callbacks"])

----------------------------------------------------------------------------
(* loop: the stats requests of one tick *)

(* faulty variant: the device is counted before its connection is looked at *)
LoopStep_CountAll(before, conn, wtp) ==
    IF wtp \notin conn THEN [before EXCEPT !.wtps_count = @ + 1]
    ELSE [wtps_count |-> before.wtps_count + 1,
          sent |-> Append(before.sent, [type |-> "request", wtp |-> wtp])]

(* one turn of the loop over self.wtps.values() *)
LoopStep(before, conn, wtp) ==
    IF wtp \notin conn THEN before
    ELSE [wtps_count |-> before.wtps_count + 1,
          sent |-> Append(before.sent, [type |-> "request", wtp |-> wtp])]

RECURSIVE LoopRequests(_, _)
LoopRequests(conn, i) ==
    IF i = 0 THEN [wtps_count |-> 0, sent |-> <<>>]
    ELSE LoopStep(LoopRequests(conn, i - 1), conn, WtpOrder[i])

----------------------------------------------------------------------------
(* The wire codec: the construct layouts of the three messages.  A message *)
(* value is a record of its fields, a buffer a sequence of bytes (0..255). *)
(* TLC integers are 32-bit signed, so the Int32ub fields of the messages   *)
(* fed to the codec stay below 2^31.                                       *)

PT_WIFI_DSCP_STATS_REQUEST == 141
PT_WIFI_DSCP_STATS_RESPONSE == 142
PT_WIFI_TRAFFIC_RULES_RESPONSE == 143
WIFI_NWID_MAXSIZE == 32

NoMessage == [kind |-> "none"]
StreamError == [error |-> "StreamError"]

Field(buf, offset, size) == SubSeq(buf, offset + 1, offset + size)

RECURSIVE Concat(_)
Concat(seqs) == IF seqs = <<>> THEN <<>> ELSE Head(seqs) \o Concat(Tail(seqs))

(* big-endian unsigned integers of 1, 2 and 4 bytes *)
IntUb(width, v) == [i \in 1..width |-> (v \div (256 ^ (width - i))) % 256]
Int8ub(v) == IntUb(1, v)
Int16ub(v) == IntUb(2, v)
Int32ub(v) == IntUb(4, v)

RECURSIVE ParseUb(_)
ParseUb(bytes) ==
    IF bytes = <<>> THEN 0
    ELSE 256 * ParseUb(SubSeq(bytes, 1, Len(bytes) - 1)) + bytes[Len(bytes)]

(* Array(4, Int8ub) *)
BuildIp(ip) == Concat([i \in 1..4 |-> Int8ub(ip[i])])
ParseIp(bytes) == [i \in 1..4 |-> ParseUb(Field(bytes, i - 1, 1))]

(* DSCP_STATS_ENTRY and TRAFFIC_RULE_MATCH share one layout *)
SizeofEntry == 4 + 4 + 2 + 2 + 1 + 1
BuildEntry(e) ==
    BuildIp(e.src_ip) \o BuildIp(e.dst_ip) \o Int16ub(e.src_port)
        \o Int16ub(e.dst_port) \o Int8ub(e.protocol) \o Int8ub(e.dscp)
ParseEntry(bytes) ==
    [src_ip |-> ParseIp(Field(bytes, 0, 4)),
     dst_ip |-> ParseIp(Field(bytes, 4, 4)),
     src_port |-> ParseUb(Field(bytes, 8, 2)),
     dst_port |-> ParseUb(Field(bytes, 10, 2)),
     protocol |-> ParseUb(Field(bytes, 12, 1)),
     dscp |-> ParseUb(Field(bytes, 13, 1))]

(* DSCP_MAP_ENTRY *)
SizeofMapEntry == 1 + 4 + 4
BuildMapEntry(e) == Int8ub(e.code) \o Int32ub(e.count) \o Int32ub(e.avg_packet_size)
ParseMapEntry(bytes) ==
    [code |-> ParseUb(Field(bytes, 0, 1)),
     count |-> ParseUb(Field(bytes, 1, 4)),
     avg_packet_size |-> ParseUb(Field(bytes, 5, 4))]

(* the fields every message starts with: version .. device *)
SizeofHeader == 1 + 1 + 4 + 4 + 4 + 6
SizeofSsid == WIFI_NWID_MAXSIZE + 1
BuildHeader(m) ==
    Int8ub(m.version) \o Int8ub(m.type) \o Int32ub(m.length) \o Int32ub(m.seq)
        \o Int32ub(m.xid) \o m.device

(* WIFI_DSCP_STATS_REQUEST *)
SizeofRequest == SizeofHeader + SizeofSsid
BuildRequest(m) == BuildHeader(m) \o m.ssid
ParseRequest(buf) ==
    IF Len(buf) < SizeofRequest THEN StreamError
    ELSE [version |-> ParseUb(Field(buf, 0, 1)),
          type |-> ParseUb(Field(buf, 1, 1)),
          length |-> ParseUb(Field(buf, 2, 4)),
          seq |-> ParseUb(Field(buf, 6, 4)),
          xid |-> ParseUb(Field(buf, 10, 4)),
          device |-> Field(buf, 14, 6),
          ssid |-> Field(buf, SizeofHeader, SizeofSsid)]

(* WIFI_DSCP_STATS_RESPONSE: the two counts come before the arrays *)
SizeofResponseFixed == SizeofHeader + SizeofSsid + 2 + 1
SizeofResponse(nb_entries, dscp_map_count) ==
    SizeofResponseFixed + nb_entries * SizeofEntry + dscp_map_count * SizeofMapEntry
BuildResponse(m) ==
    BuildHeader(m) \o m.ssid \o Int16ub(m.nb_entries) \o Int8ub(m.dscp_map_count)
        \o Concat([i \in 1..Len(m.stats) |-> BuildEntry(m.stats[i])])
        \o Concat([i \in 1..Len(m.dscp_map) |-> BuildMapEntry(m.dscp_map[i])])

(* faulty variant: both arrays are sized by nb_entries *)
ArrayCounts_OneCount(buf) ==
    [stats |-> ParseUb(Field(buf, SizeofHeader + SizeofSsid, 2)),
     dscp_map |-> ParseUb(Field(buf, SizeofHeader + SizeofSsid, 2))]

(* lambda ctx: ctx.nb_entries and lambda ctx: ctx.dscp_map_count *)
ArrayCounts(buf) ==
    [stats |-> ParseUb(Field(buf, SizeofHeader + SizeofSsid, 2)),
     dscp_map |-> ParseUb(Field(buf, SizeofHeader + SizeofSsid + 2, 1))]

ParseResponse(buf) ==
    IF Len(buf) < SizeofResponseFixed THEN StreamError
    ELSE LET counts == ArrayCounts(buf)
             statsAt == SizeofResponseFixed
             mapAt == statsAt + counts.stats * SizeofEntry
         IN IF Len(buf) < mapAt + counts.dscp_map * SizeofMapEntry THEN StreamError
            ELSE [version |-> ParseUb(Field(buf, 0, 1)),
                  type |-> ParseUb(Field(buf, 1, 1)),
                  length |-> ParseUb(Field(buf, 2, 4)),
                  seq |-> ParseUb(Field(buf, 6, 4)),
                  xid |-> ParseUb(Field(buf, 10, 4)),
                  device |-> Field(buf, 14, 6),
                  ssid |-> Field(buf, SizeofHeader, SizeofSsid),
                  nb_entries |-> ParseUb(Field(buf, SizeofHeader + SizeofSsid, 2)),
                  dscp_map_count |->
                      ParseUb(Field(buf, SizeofHeader + SizeofSsid + 2, 1)),
                  stats |-> [i \in 1..counts.stats |->
                      ParseEntry(Field(buf, statsAt + (i - 1) * SizeofEntry,
                                       SizeofEntry))],
                  dscp_map |-> [i \in 1..counts.dscp_map |->
                      ParseMapEntry(Field(buf, mapAt + (i - 1) * SizeofMapEntry,
                                          SizeofMapEntry))]]

(* WIFI_TRAFFIC_RULE_RESPONSE *)
SizeofRule == SizeofHeader + 1 + SizeofEntry
BuildRule(m) == BuildHeader(m) \o Int8ub(m.dscp) \o BuildEntry(m.match)
ParseRule(buf) ==
    IF Len(buf) < SizeofRule THEN StreamError
    ELSE [version |-> ParseUb(Field(buf, 0, 1)),
          type |-> ParseUb(Field(buf, 1, 1)),
          length |-> ParseUb(Field(buf, 2, 4)),
          seq |-> ParseUb(Field(buf, 6, 4)),
          xid |-> ParseUb(Field(buf, 10, 4)),
          device |-> Field(buf, 14, 6),
          dscp |-> ParseUb(Field(buf, SizeofHeader, 1)),
          match |-> ParseEntry(Field(buf, SizeofHeader + 1, SizeofEntry))]

(* Array(count, ...) builds only a list of exactly count items *)
BuildOk(m) ==
    m.kind = "response" =>
        /\ m.value.nb_entries = Len(m.value.stats)
        /\ m.value.dscp_map_count = Len(m.value.dscp_map)

Build(m) ==
    CASE m.kind = "request" -> BuildRequest(m.value)
      [] m.kind = "response" -> BuildResponse(m.value)
      [] m.kind = "rule" -> BuildRule(m.value)

Parse(kind, buf) ==
    CASE kind = "request" -> ParseRequest(buf)
      [] kind = "response" -> ParseResponse(buf)
      [] kind = "rule" -> ParseRule(buf)

----------------------------------------------------------------------------
(* The state machine *)

Init ==
    /\ stats = <<>>
    /\ traffic_rules = <<>>
    /\ wtps_count = 0
    /\ connection \in SUBSET WTPs
    /\ pending = [w \in WTPs |-> 0]
    /\ wifi_slices = <<>>
    /\ sent = <<>>
    /\ ticks = 0
    /\ last = "init"
    /\ ran = FALSE
    /\ responded = [w \in WTPs |-> 0]
    /\ cycleRuns = 0
    /\ lastReported = <<>>
    /\ checks = <<>>
    /\ candidates = {}
    /\ classified = <<>>
    /\ msg = NoMessage
    /\ wire = <<>>
    /\ parsed = NoMessage

Loop ==
    /\ ticks < MaxTicks
    /\ LET r == LoopRequests(connection, Len(WtpOrder)) IN
        /\ wtps_count' = r.wtps_count
        /\ sent' = r.sent
    /\ pending' = [w \in WTPs |-> IF w \in connection THEN pending[w] + 1
                                  ELSE pending[w]]
    /\ ticks' = ticks + 1
    /\ last' = "loop"
    /\ ran' = FALSE
    /\ responded' = [w \in WTPs |-> 0]
    /\ cycleRuns' = 0
    /\ checks' = <<>>
    /\ classified' = <<>>
    /\ UNCHANGED <<stats, traffic_rules, connection, wifi_slices, lastReported,
                   candidates>>
    /\ UNCHANGED codecVars

HandleResponse(wtp, arr) ==
    /\ wtp \in connection
    /\ pending[wtp] > 0
    /\ LET response == Response(wtp, arr)
           packetStats == PacketStats(response)
           st == StoreSnapshot(stats, wtp, packetStats)
       IN \E r \in {make_traffic_rules(st, traffic_rules, wtps_count, wifi_slices,
                                   connection)} :
          /\ stats' = r.stats
          /\ traffic_rules' = r.table
          /\ wifi_slices' = r.wifi_slices
          /\ sent' = ResponseOutput(r)
          /\ ran' = r.ran
          /\ checks' = r.checks
          /\ cycleRuns' = IF r.ran THEN cycleRuns + 1 ELSE cycleRuns
          /\ candidates' = IF r.ran
                           THEN {r.candidates[i] : i \in 1..Len(r.candidates)}
                           ELSE candidates
          /\ classified' = r.dscpMap
          /\ lastReported' = (wtp :> packetStats.dscp_map) @@ lastReported
    /\ pending' = [pending EXCEPT ![wtp] = @ - 1]
    /\ responded' = [responded EXCEPT ![wtp] = @ + 1]
    /\ last' = "response"
    /\ UNCHANGED <<wtps_count, connection, ticks>>
    /\ UNCHANGED codecVars

Connect(wtp) ==
    /\ wtp \notin connection
    /\ connection' = connection \cup {wtp}
    /\ sent' = <<>>
    /\ last' = "connect"
    /\ ran' = FALSE
    /\ checks' = <<>>
    /\ classified' = <<>>
    /\ UNCHANGED <<stats, traffic_rules, wtps_count, pending, wifi_slices, ticks,
                   responded, cycleRuns, lastReported, candidates>>
    /\ UNCHANGED codecVars

Disconnect(wtp) ==
    /\ wtp \in connection
    /\ connection' = connection \ {wtp}
    /\ pending' = [pending EXCEPT ![wtp] = 0]
    /\ sent' = <<>>
    /\ last' = "disconnect"
    /\ ran' = FALSE
    /\ checks' = <<>>
    /\ classified' = <<>>
    /\ UNCHANGED <<stats, traffic_rules, wtps_count, wifi_slices, ticks,
                   responded, cycleRuns, lastReported, candidates>>
    /\ UNCHANGED codecVars

Next ==
    \/ Loop
    \/ \E wtp \in WTPs, arr \in DscpMapArrays : HandleResponse(wtp, arr)
    \/ \E wtp \in WTPs : Connect(wtp)
    \/ \E wtp \in WTPs : Disconnect(wtp)

Spec == Init /\ [][Next]_vars

----------------------------------------------------------------------------
(* The allocator on its own: make_slices applied to target lists as        *)
(* make_traffic_rules hands them over (non-empty lists of slice ids), so   *)
(* that every group of the unit table is exercised.                        *)

SliceIds == {0, 5, 8, 16, 24, 32, 44, 46, 48}
TargetLists == {<<a>> : a \in SliceIds} \cup {<<a, b>> : a, b \in SliceIds}

AllocInit == Init /\ connection = WTPs

Allocate(targets) ==
    /\ Len(targets) > 0
    /\ \E ctx \in {make_slices([wifi_slices |-> wifi_slices, sent |-> <<>>],
                                targets)} :
          /\ wifi_slices' = ctx.wifi_slices
          /\ sent' = ctx.sent
    /\ last' = "allocate"
    /\ UNCHANGED <<stats, traffic_rules, wtps_count, connection, pending, ticks,
                   ran, responded, cycleRuns, lastReported, checks, candidates,
                   classified>>
    /\ UNCHANGED codecVars

AllocNext == \E targets \in TargetLists : Allocate(targets)

SpecAlloc == AllocInit /\ [][AllocNext]_vars

----------------------------------------------------------------------------
(* The codec on its own: a message value is composed, built into bytes and *)
(* parsed back; the codec keeps no state between messages, so one message  *)
(* per behaviour covers it.  Responses are composed with every pairing of  *)
(* declared counts and array lengths up to MaxEntries.                     *)

MaxEntries == 2

Devices == {<<0, 0, 0, 0, 0, 1>>, <<255, 16, 32, 48, 64, 80>>}
NullPadded(name) == name \o [i \in 1..(SizeofSsid - Len(name)) |-> 0]
Ssids == {NullPadded(<<>>), NullPadded(<<119, 105, 102, 105>>)}
Seqs == {0, 16909060}
Xids == {0, 2147483647}
StatEntries ==
    {[src_ip |-> <<10, 0, 0, 1>>, dst_ip |-> <<192, 168, 1, 255>>,
      src_port |-> 443, dst_port |-> 65535, protocol |-> 6, dscp |-> 46],
     [src_ip |-> ANY_IP_ADDRESS, dst_ip |-> ANY_IP_ADDRESS,
      src_port |-> ANY_PORT, dst_port |-> 256, protocol |-> ANY_PROTOCOL,
      dscp |-> 5]}
WireMapEntries ==
    {[code |-> 5, count |-> 601, avg_packet_size |-> 64],
     [code |-> 255, count |-> 2147483647, avg_packet_size |-> 65536]}
ArraysOf(S) == UNION {[1..n -> S] : n \in 0..MaxEntries}

Requests ==
    {[kind |-> "request",
      value |-> [version |-> 0, type |-> PT_WIFI_DSCP_STATS_REQUEST,
                 length |-> SizeofRequest, seq |-> s, xid |-> x,
                 device |-> d, ssid |-> n]] :
        s \in Seqs, x \in Xids, d \in Devices, n \in Ssids}
Responses ==
    {[kind |-> "response",
      value |-> [version |-> 0, type |-> PT_WIFI_DSCP_STATS_RESPONSE,
                 length |-> SizeofResponse(Len(st), Len(dm)), seq |-> s,
                 xid |-> 0, device |-> <<0, 0, 0, 0, 0, 1>>,
                 ssid |-> NullPadded(<<119, 105, 102, 105>>),
                 nb_entries |-> nb, dscp_map_count |-> cnt,
                 stats |-> st, dscp_map |-> dm]] :
        s \in Seqs, nb \in 0..MaxEntries, cnt \in 0..MaxEntries,
        st \in ArraysOf(StatEntries), dm \in ArraysOf(WireMapEntries)}
Rules ==
    {[kind |-> "rule",
      value |-> [version |-> 0, type |-> PT_WIFI_TRAFFIC_RULES_RESPONSE,
                 length |-> SizeofRule, seq |-> s, xid |-> 0, device |-> d,
                 dscp |-> t, match |-> m]] :
        s \in Seqs, d \in Devices, t \in {0, 184}, m \in StatEntries}
Messages == Requests \cup Responses \cup Rules

CodecInit == Init /\ connection = {}

Compose(m) ==
    /\ last = "init"
    /\ msg' = m
    /\ wire' = <<>>
    /\ parsed' = NoMessage
    /\ last' = "compose"
    /\ UNCHANGED <<stats, traffic_rules, wtps_count, connection, pending,
                   wifi_slices, sent, ticks, ran, responded, cycleRuns,
                   lastReported, checks, candidates, classified>>

BuildMessage ==
    /\ last = "compose"
    /\ IF BuildOk(msg)
       THEN wire' = Build(msg) /\ last' = "build"
       ELSE wire' = <<>> /\ last' = "build_error"
    /\ UNCHANGED <<stats, traffic_rules, wtps_count, connection, pending,
                   wifi_slices, sent, ticks, ran, responded, cycleRuns,
                   lastReported, checks, candidates, classified, msg, parsed>>

ParseMessage ==
    /\ last = "build"
    /\ parsed' = Parse(msg.kind, wire)
    /\ last' = "parse"
    /\ UNCHANGED <<stats, traffic_rules, wtps_count, connection, pending,
                   wifi_slices, sent, ticks, ran, responded, cycleRuns,
                   lastReported, checks, candidates, classified, msg, wire>>

CodecNext ==
    \/ \E m \in Messages : Compose(m)
    \/ BuildMessage
    \/ ParseMessage

SpecCodec == CodecInit /\ [][CodecNext]_vars

----------------------------------------------------------------------------
(* Vocabulary of the properties *)

Events(type) == {i \in 1..Len(sent) : sent[i].type = type}
EmitsOutput == Events("upsert") # {} \/ Events("rule") # {}

Reporters == DOMAIN lastReported

(* the devices that have responded in the current cycle *)
Responders == {w \in WTPs : responded[w] > 0}

(* the sum, over the devices holding a snapshot, of one field of the       *)
(* counter each of them last reported for `code`; field 1 is the packet    *)
(* count and field 2 the average packet size                               *)
RECURSIVE ReportedSum(_, _, _)
ReportedSum(W, code, field) ==
    IF W = {} THEN 0
    ELSE LET w == CHOOSE x \in W : TRUE
             own == IF Has(lastReported[w], code)
                    THEN Get(lastReported[w], code)[field] ELSE 0
         IN own + ReportedSum(W \ {w}, code, field)

ReportedCodes ==
    UNION {KeysOf(lastReported[w]) : w \in Reporters}

CandidateFor(code) == {c \in candidates : c.rule.match.dscp = code}

WildcardMatch(code) ==
    [src_ip |-> <<0, 0, 0, 0>>, dst_ip |-> <<0, 0, 0, 0>>, src_port |-> 0,
     dst_port |-> 0, protocol |-> 255, dscp |-> code]

(* the sum of the units, and of the stored quanta, of provisioned slices *)
RECURSIVE UnitTotal(_)
UnitTotal(K) ==
    IF K = {} THEN <<0, 1>>
    ELSE LET key == CHOOSE x \in K : TRUE
         IN RatAdd(get_dscp_unit(IntOf(key)), UnitTotal(K \ {key}))

RECURSIVE QuantumTotal(_)
QuantumTotal(K) ==
    IF K = {} THEN <<0, 1>>
    ELSE LET key == CHOOSE x \in K : TRUE
         IN RatAdd(wifi_slices[key].quantum, QuantumTotal(K \ {key}))

(* `out` holds a rule push of rule tr to device wtp *)
Pushed(out, wtp, tr) ==
    \E i \in 1..Len(out) :
        /\ out[i].type = "rule"
        /\ out[i].wtp = wtp
        /\ out[i].match = tr.match
        /\ out[i].dscp = tr.dscp

(* every order in which the devices of st can be visited *)
OrdersOf(st) ==
    {p \in [1..Len(st) -> KeysOf(st)] :
        \A i, j \in 1..Len(st) : p[i] = p[j] => i = j}

(* an ordered dict as a plain mapping *)
AsFunction(d) == [key \in KeysOf(d) |-> Get(d, key)]

----------------------------------------------------------------------------
(* C1: aggregation barrier per cycle.  While fewer devices have responded  *)
(* since the last tick than the tick counted, handling a response emits no *)
(* slice upsert and no rule push; and once as many have responded as the   *)
(* tick counted, classification has run exactly once in the cycle.         *)
C1_BarrierPerCycle ==
    /\ (last = "response" /\ Cardinality(Responders) < wtps_count)
            => ~EmitsOutput
    /\ (last = "response" /\ wtps_count > 0
            /\ Cardinality(Responders) = wtps_count
            /\ \A w \in Responders : responded[w] = 1) => cycleRuns = 1

(* C2: aggregation sums across devices.  For every code present in some    *)
(* device snapshot, the packet count the classifier reads is the sum of    *)
(* the devices' counts, and the aggregated average size is the sum of the  *)
(* devices' average sizes.                                                 *)
C2_AggregationSums ==
    ran => /\ KeysOf(classified) = ReportedCodes
           /\ \A code \in ReportedCodes :
                /\ Get(classified, code)[1] = ReportedSum(Reporters, code, 1)
                /\ Get(classified, code)[2] = ReportedSum(Reporters, code, 2)

(* C3: classification thresholds.  With c the network-wide packet count of *)
(* a code: c <= 200 gives no rule and no slice for it; 200 < c <= 600 gives*)
(* its group slice and a rule rewriting to the group's ToS; c > 600 gives  *)
(* its own slice and a rule rewriting to its own ToS.                      *)
C3_Thresholds ==
    ran => \A code \in ReportedCodes :
        LET c == ReportedSum(Reporters, code, 1) IN
        /\ c <= 200 => CandidateFor(code) = {}
        /\ (200 < c /\ c <= 600) =>
              CandidateFor(code) =
                 {[rule |-> [match |-> WildcardMatch(code),
                             dscp |-> get_tos(get_dscp_group(code))],
                   slice |-> get_dscp_group(code)]}
        /\ c > 600 =>
              CandidateFor(code) =
                 {[rule |-> [match |-> WildcardMatch(code), dscp |-> get_tos(code)],
                   slice |-> code]}

(* C4: quantum proportionality.  Once the allocator has run, every         *)
(* provisioned slice holds 10000 * unit(s) / (sum of the units of all      *)
(* provisioned slices), the quanta sum to 10000, and the slices the        *)
(* classification run targeted are provisioned.                            *)
C4_QuantumProportional ==
    LET provisioned == DOMAIN wifi_slices IN
    /\ \A key \in provisioned :
          wifi_slices[key].quantum =
             RatDiv(RatMul(<<10000, 1>>, get_dscp_unit(IntOf(key))),
                    UnitTotal(provisioned))
    /\ provisioned # {} => QuantumTotal(provisioned) = <<10000, 1>>
    /\ ran => \A c \in candidates : StrOf(c.slice) \in provisioned

(* slices 0 and 46 provisioned with quanta 2500 and 7500 *)
C4_Witness ==
    /\ ran
    /\ DOMAIN wifi_slices = {StrOf(0), StrOf(46)}
    /\ wifi_slices[StrOf(0)].quantum = <<2500, 1>>
    /\ wifi_slices[StrOf(46)].quantum = <<7500, 1>>

(* C5: deduplicator.  For every rule checked in a step: an unseen          *)
(* fingerprint is recorded with the rule's rewrite and the result is false;*)
(* a fingerprint seen with the same rewrite gives true and keeps its entry;*)
(* a fingerprint seen with another rewrite is overwritten and gives false. *)
(* Entries of fingerprints that were not checked are left as they were.    *)
C5_DedupCheck ==
    [][LET keys == {get_hash_match(checks'[i].rule.match) : i \in 1..Len(checks')}
       IN /\ \A i \in 1..Len(checks') :
                LET tr == checks'[i].rule
                    key == get_hash_match(tr.match)
                IN /\ key \in DOMAIN traffic_rules'
                   /\ key \notin DOMAIN traffic_rules =>
                         (~checks'[i].ret /\ traffic_rules'[key] = tr.dscp)
                   /\ (key \in DOMAIN traffic_rules /\ traffic_rules[key] = tr.dscp) =>
                         (checks'[i].ret /\ traffic_rules'[key] = traffic_rules[key])
                   /\ (key \in DOMAIN traffic_rules /\ traffic_rules[key] # tr.dscp) =>
                         (~checks'[i].ret /\ traffic_rules'[key] = tr.dscp)
          /\ \A key \in DOMAIN traffic_rules' \ keys :
                key \in DOMAIN traffic_rules /\ traffic_rules'[key] = traffic_rules[key]
          /\ DOMAIN traffic_rules \subseteq DOMAIN traffic_rules'
      ]_vars

(* one step in which a changed rule and an unchanged rule were checked *)
C5_Witness ==
    /\ \E i \in 1..Len(checks) : checks[i].kind = "changed" /\ ~checks[i].ret
    /\ \E i \in 1..Len(checks) : checks[i].kind = "same" /\ checks[i].ret

(* C6: dedup idempotence across cycles.  A rule that the previous          *)
(* classification run also produced (same match, same rewrite) is pushed   *)
(* to no device by the current run; a rule whose fingerprint was never     *)
(* seen is pushed to every connected device.                               *)
C6_DedupAcrossCycles ==
    [][ran' => \A c \in candidates' :
          /\ c.rule \in {d.rule : d \in candidates} =>
                \A w \in WTPs : ~Pushed(sent', w, c.rule)
          /\ get_hash_match(c.rule.match) \notin DOMAIN traffic_rules =>
                \A w \in connection : Pushed(sent', w, c.rule)
      ]_vars

(* a run of the second cycle that rebuilt a rule and pushed nothing *)
C6_Witness ==
    /\ ran
    /\ ticks = 2
    /\ \E i \in 1..Len(checks) : checks[i].kind = "same"
    /\ Events("rule") = {}

(* C7: aggregation is order-independent.  Whatever order the stored device *)
(* snapshots are visited in, the aggregated map, the slices and the rules  *)
(* derived from it are the same.                                           *)
C7_OrderIndependent ==
    \A p \in OrdersOf(stats) :
        LET here == AggregatedMap(Aggregate(stats))
            there == AggregatedMap(AggregateOver(stats, p, Len(p)))
            clsHere == Classify(traffic_rules, here, Len(here))
            clsThere == Classify(traffic_rules, there, Len(there))
        IN /\ AsFunction(here) = AsFunction(there)
           /\ {clsHere.candidates[i] : i \in 1..Len(clsHere.candidates)}
                = {clsThere.candidates[i] : i \in 1..Len(clsThere.candidates)}

(* C8: the snapshot store holds what each device last reported.  Every     *)
(* stored dscp_map equals the dscp_map of that device's most recent        *)
(* response.                                                               *)
C8_SnapshotIsLastReport ==
    \A i \in 1..Len(stats) : stats[i].v.dscp_map = lastReported[stats[i].k]

(* C9 as stated: callbacks fire only in a step whose classification ran,   *)
(* and once per cycle.                                                     *)
C9_CallbacksPerClassification ==
    /\ (last = "response" /\ ~ran) => Events("callbacks") = {}
    /\ Events("callbacks") # {} => cycleRuns = 1

(* C9 as amended: callbacks fire exactly once per handled response, after  *)
(* everything else the handler emits, whether or not classification ran,   *)
(* and in no other step.                                                   *)
C9_CallbacksPerResponse ==
    /\ last = "response" =>
          /\ Cardinality(Events("callbacks")) = 1
          /\ sent[Len(sent)].type = "callbacks"
    /\ last # "response" => Events("callbacks") = {}

(* a response handled below the barrier fired the callbacks *)
C9_Witness ==
    /\ last = "response"
    /\ ~ran
    /\ Events("callbacks") # {}

(* C10: a loop tick sends exactly one stats request to every connected     *)
(* device and none to the others, and leaves wtps_count equal to the       *)
(* number of requests it sent.                                             *)
C10_LoopRequests ==
    last = "loop" =>
        /\ \A w \in WTPs :
              Cardinality({i \in Events("request") : sent[i].wtp = w})
                 = IF w \in connection THEN 1 ELSE 0
        /\ Len(sent) = Cardinality(Events("request"))
        /\ wtps_count = Cardinality(Events("request"))

(* the second tick counts one device after the first tick counted two *)
C10_Witness ==
    /\ last = "loop"
    /\ ticks = 2
    /\ Len(stats) = 2
    /\ wtps_count = 1
    /\ connection # WTPs

----------------------------------------------------------------------------
(* C11: a silent device stalls classification without stalling polling.    *)
(* While some connected device that was polled has not responded in the    *)
(* current cycle, handling a response emits no slice upsert and no rule    *)
(* push; and every tick still sends a request to every connected device,   *)
(* whatever is still unanswered.                                           *)
Silent == {w \in connection : pending[w] > 0 /\ responded[w] = 0}

C11_SilentDeviceStalls ==
    /\ (last = "response" /\ Silent # {}) => ~EmitsOutput
    /\ last = "loop" =>
          \A w \in connection : \E i \in Events("request") : sent[i].wtp = w


(* comparison of exact rationals with positive denominators *)
RatLess(x, y) == x[1] * y[2] < y[1] * x[2]

(* the position of a slice's group in an order of the groups *)
GroupRank(order, slice) ==
    CHOOSE i \in 1..Len(order) : order[i] = get_dscp_group(slice)

UnitsIncreasing(order) ==
    \A i, j \in 1..Len(order) :
        i < j => RatLess(unit_map[order[i]], unit_map[order[j]])

QuantumOrdered(order) ==
    \A a, b \in DOMAIN wifi_slices :
        GroupRank(order, IntOf(a)) < GroupRank(order, IntOf(b)) =>
            RatLess(wifi_slices[a].quantum, wifi_slices[b].quantum)

(* C12 as stated: with the groups ranked best-effort (0) < background (8)  *)
(* < broadcast-video (24) < streaming (32) < expedited-forwarding (46) <   *)
(* network-control (48), a provisioned slice of a later group holds a      *)
(* strictly larger quantum than one of an earlier group.                   *)
C12_ClaimedOrder == QuantumOrdered(<<0, 8, 24, 32, 46, 48>>)

(* C12 as amended: the unit table is strictly increasing in the order      *)
(* background (8) < best-effort (0) < broadcast-video (24) < streaming     *)
(* (32) < expedited-forwarding (46) < network-control (48), and a          *)
(* provisioned slice of a later group in that order holds a strictly       *)
(* larger quantum than one of an earlier group.                            *)
C12_UnitOrder ==
    /\ DOMAIN unit_map = {8, 0, 24, 32, 46, 48}
    /\ UnitsIncreasing(<<8, 0, 24, 32, 46, 48>>)
    /\ QuantumOrdered(<<8, 0, 24, 32, 46, 48>>)

(* slices of all six groups provisioned by the allocator *)
C12_Witness ==
    /\ last = "allocate"
    /\ {get_dscp_group(IntOf(key)) : key \in DOMAIN wifi_slices}
          = {8, 0, 24, 32, 46, 48}


(* the values of the 8-bit code field of a dscp map entry *)
CodeSpace == 0..255

(* C13: unknown DSCP codes are handled permissively.  Every code absent    *)
(* from the group table has group 0 and every code absent from the ToS     *)
(* table has ToS 0; and a classification run that reads a count above the  *)
(* activation threshold for a code absent from both tables still produces  *)
(* a rule (rewrite 0) and a provisioned slice (the code itself above the   *)
(* individual threshold, slice 0 otherwise).  The first half is a fact of  *)
(* the two tables and is evaluated once, on the initial states.            *)
C13_UnknownCodes ==
    /\ last = "init" => \A code \in CodeSpace :
          /\ code \notin DOMAIN group_map => get_dscp_group(code) = 0
          /\ code \notin DOMAIN tos_to_dscp_map => get_tos(code) = 0
    /\ ran => \A i \in 1..Len(classified) :
          LET code == classified[i].k
              count == classified[i].v[1]
          IN (code \notin DOMAIN group_map /\ code \notin DOMAIN tos_to_dscp_map
                /\ count > 200) =>
                \E c \in CandidateFor(code) :
                    /\ c.rule.dscp = 0
                    /\ c.slice = IF count > 600 THEN code ELSE 0
                    /\ StrOf(c.slice) \in DOMAIN wifi_slices

(* the unknown code 5 got its own slice and a rule rewriting to 0 *)
C13_Witness ==
    /\ ran
    /\ 5 \notin DOMAIN group_map
    /\ \E c \in CandidateFor(5) : c.slice = 5 /\ c.rule.dscp = 0
    /\ StrOf(5) \in DOMAIN wifi_slices
    /\ \E i \in Events("rule") : sent[i].match.dscp = 5 /\ sent[i].dscp = 0


(* C14: codec round trip.  Whenever a StatsRequest, a StatsResponse whose  *)
(* nb_entries and dscp_map_count equal the lengths of its two arrays, or a *)
(* RulePush has been built and parsed back, the parsed value is the        *)
(* original value; the built buffer has the fixed-layout size, and in a    *)
(* response the two counts sit in the bytes before the arrays they size.   *)
C14_RoundTrip ==
    last = "parse" =>
        /\ parsed = msg.value
        /\ msg.kind = "request" => Len(wire) = SizeofRequest
        /\ msg.kind = "rule" => Len(wire) = SizeofRule
        /\ msg.kind = "response" =>
              /\ Len(wire) = SizeofResponse(Len(msg.value.stats),
                                            Len(msg.value.dscp_map))
              /\ Field(wire, SizeofRequest, 2) = Int16ub(Len(msg.value.stats))
              /\ Field(wire, SizeofRequest + 2, 1) = Int8ub(Len(msg.value.dscp_map))

(* a response with arrays of different non-zero lengths was parsed back *)
C14_Witness ==
    /\ last = "parse"
    /\ msg.kind = "response"
    /\ Len(parsed.stats) = 2
    /\ Len(parsed.dscp_map) = 1
    /\ parsed.dscp_map[1].count = 2147483647


(* the upserts a step issues, as positions of its output *)
UpsertsOfStep == {i \in 1..Len(sent') : sent'[i].type = "upsert"}

(* C15: slice upsert suppression.  Every upsert a step issues is for a     *)
(* slice that was not provisioned before the step or whose stored quantum  *)
(* differs from the upserted one, no slice is upserted twice in one run,   *)
(* and a step that leaves the set of provisioned slices unchanged issues   *)
(* no upsert at all.                                                       *)
C15_UpsertSuppression ==
    [][/\ \A i \in UpsertsOfStep :
             LET key == StrOf(sent'[i].slice_id)
             IN \/ key \notin DOMAIN wifi_slices
                \/ wifi_slices[key].quantum # sent'[i].quantum
       /\ \A i, j \in UpsertsOfStep :
             sent'[i].slice_id = sent'[j].slice_id => i = j
       /\ DOMAIN wifi_slices' = DOMAIN wifi_slices => UpsertsOfStep = {}]_vars

(* an allocator run over already provisioned slices that issued no upsert *)
C15_Witness ==
    /\ ran
    /\ candidates # {}
    /\ \A c \in candidates : StrOf(c.slice) \in DOMAIN wifi_slices
    /\ Events("upsert") = {}
    /\ Events("rule") # {}


(* the pushes of a rule to a device in the output of the last step *)
PushesOf(wtp, tr) ==
    {i \in Events("rule") :
        sent[i].wtp = wtp /\ sent[i].match = tr.match /\ sent[i].dscp = tr.dscp}

(* C16: rule delivery.  After a response step, every rule the deduplicator *)
(* reported as new or changed in that step has been pushed exactly once to *)
(* every connected device, a rule it suppressed has been pushed to nobody, *)
(* no device without a connection has been pushed anything, and every push *)
(* is of a rule approved in that step.                                     *)
C16_RuleDelivery ==
    last = "response" =>
        /\ \A k \in 1..Len(checks) : \A w \in WTPs :
              Cardinality(PushesOf(w, checks[k].rule)) =
                  IF checks[k].kind \in {"new", "changed"} /\ w \in connection
                  THEN 1 ELSE 0
        /\ \A i \in Events("rule") :
              /\ ran
              /\ sent[i].wtp \in connection
              /\ \E k \in 1..Len(checks) :
                    /\ checks[k].kind \in {"new", "changed"}
                    /\ i \in PushesOf(sent[i].wtp, checks[k].rule)

(* one run with a suppressed rule, an approved rule and a device that has  *)
(* no connection                                                           *)
C16_Witness ==
    /\ last = "response"
    /\ ran
    /\ connection # {}
    /\ connection # WTPs
    /\ \E k \in 1..Len(checks) : checks[k].kind = "same"
    /\ \E k \in 1..Len(checks) :
          /\ checks[k].kind \in {"new", "changed"}
          /\ \A w \in connection : PushesOf(w, checks[k].rule) # {}


(* the checks of a step that approved a rule with fingerprint key *)
ApprovedInStep(key) ==
    {k \in 1..Len(checks') :
        /\ checks'[k].kind \in {"new", "changed"}
        /\ get_hash_match(checks'[k].rule.match) = key}

(* C17: dedup table persistence.  No step removes a fingerprint from the   *)
(* table; after a step, a fingerprint for which the step approved a rule   *)
(* maps to the rewrite of the last rule approved for it, and every other   *)
(* fingerprint was in the table before the step and maps to the rewrite it *)
(* mapped to before.                                                       *)
C17_TablePersistence ==
    [][/\ DOMAIN traffic_rules \subseteq DOMAIN traffic_rules'
       /\ \A key \in DOMAIN traffic_rules' :
             IF ApprovedInStep(key) # {}
             THEN LET latest == CHOOSE k \in ApprovedInStep(key) :
                                    \A j \in ApprovedInStep(key) : j <= k
                  IN traffic_rules'[key] = checks'[latest].rule.dscp
             ELSE /\ key \in DOMAIN traffic_rules
                  /\ traffic_rules'[key] = traffic_rules[key]]_vars

(* the table holds two fingerprints: the rewrite of one has just been      *)
(* replaced, the other is kept from an earlier run                         *)
C17_Witness ==
    /\ last = "response"
    /\ \E k \in 1..Len(checks) :
          /\ checks[k].kind = "changed"
          /\ traffic_rules[get_hash_match(checks[k].rule.match)] = checks[k].rule.dscp
          /\ \E key \in DOMAIN traffic_rules :
                \A j \in 1..Len(checks) : get_hash_match(checks[j].rule.match) # key


(* C18: progress when all polled devices answer.  Once every device the    *)
(* last tick sent a request to has responded in the cycle (the responders  *)
(* of a cycle are among the devices polled by its tick, so this is when    *)
(* their number reaches wtps_count), classification has run at least once  *)
(* in that cycle.                                                          *)
C18_AllAnsweredRuns ==
    (/\ last = "response"
     /\ wtps_count > 0
     /\ Cardinality(Responders) = wtps_count) => cycleRuns >= 1


(* C19: the allocator cannot fail on a missing unit or divide by zero.     *)
(* The group of every slice id of the code space is one of 0, 8, 24, 32,   *)
(* 46, 48, each of which has a positive unit; upserts are issued only by a *)
(* run that classified at least one code (make_slices is called with a     *)
(* non-empty target list only); and whenever slices are provisioned their  *)
(* unit sum, the divisor of the next allocator run, is positive.  The      *)
(* first part is a fact of the tables, evaluated on the initial states.    *)
C19_AllocatorTotal ==
    /\ last = "init" => \A id \in CodeSpace :
          /\ get_dscp_group(id) \in {0, 8, 24, 32, 46, 48}
          /\ get_dscp_group(id) \in DOMAIN unit_map
          /\ RatLess(<<0, 1>>, get_dscp_unit(id))
    /\ Events("upsert") # {} => ran /\ Len(checks) > 0
    /\ (ran /\ Len(checks) > 0) =>
          \A k \in 1..Len(checks) : \E c \in candidates :
              c.rule = checks[k].rule /\ StrOf(c.slice) \in DOMAIN wifi_slices
    /\ DOMAIN wifi_slices # {} => RatLess(<<0, 1>>, UnitTotal(DOMAIN wifi_slices))

(* an allocator run provisioned the individual slice 44 next to others *)
C19_Witness ==
    /\ ran
    /\ Events("upsert") # {}
    /\ StrOf(44) \in DOMAIN wifi_slices
    /\ Cardinality(DOMAIN wifi_slices) >= 2
    /\ QuantumTotal(DOMAIN wifi_slices) = <<total_quantum, 1>>


(* C20: slice before rule.  In the output of a response step every slice   *)
(* upsert comes before every rule push, and every rule pushed belongs to a *)
(* candidate of the run whose slice is provisioned and whose rewrite is    *)
(* get_tos of that slice.                                                  *)
C20_SliceBeforeRule ==
    last = "response" =>
        /\ \A i \in Events("upsert") : \A j \in Events("rule") : i < j
        /\ \A j \in Events("rule") : \E c \in candidates :
              /\ c.rule.match = sent[j].match
              /\ c.rule.dscp = sent[j].dscp
              /\ sent[j].dscp = get_tos(c.slice)
              /\ StrOf(c.slice) \in DOMAIN wifi_slices

(* a run that both provisioned a slice with a non-zero rewrite and pushed  *)
(* the rule for it                                                         *)
C20_Witness ==
    /\ last = "response"
    /\ \E i \in Events("upsert") : \E j \in Events("rule") :
          /\ sent[j].dscp = get_tos(sent[i].slice_id)
          /\ sent[j].dscp # 0


(* C21: fingerprints of classifier-generated rules do not collide.  Every  *)
(* rule the classifier builds matches wildcards in all fields but dscp and *)
(* has the fingerprint 255 + dscp, so rules built for different codes have *)
(* different fingerprints; every key of the dedup table is 255 + code for  *)
(* a code the devices can report, and the table has no more keys than      *)
(* there are such codes.  The fingerprint of the wildcard match of each    *)
(* code of the code space is a fact of get_hash_match, evaluated on the    *)
(* initial states.                                                         *)
C21_NoCollision ==
    /\ last = "init" => \A code \in CodeSpace :
          get_hash_match(WildcardMatch(code)) = 255 + code
    /\ \A c \in candidates :
          /\ c.rule.match = WildcardMatch(c.rule.match.dscp)
          /\ get_hash_match(c.rule.match) = 255 + c.rule.match.dscp
    /\ \A k \in 1..Len(checks) :
          /\ checks[k].rule.match = WildcardMatch(checks[k].rule.match.dscp)
          /\ get_hash_match(checks[k].rule.match) \in DOMAIN traffic_rules
          /\ \A j \in 1..Len(checks) :
                checks[j].rule.match.dscp # checks[k].rule.match.dscp =>
                    get_hash_match(checks[j].rule.match)
                        # get_hash_match(checks[k].rule.match)
    /\ \A key \in DOMAIN traffic_rules : key - 255 \in Codes
    /\ Cardinality(DOMAIN traffic_rules) <= Cardinality(Codes)

(* one run classified two codes and the table holds a key for each *)
C21_Witness ==
    /\ last = "response"
    /\ Len(checks) = 2
    /\ checks[1].rule.match.dscp # checks[2].rule.match.dscp
    /\ DOMAIN traffic_rules = {255 + 5, 255 + 44}
    /\ traffic_rules[255 + 5] # traffic_rules[255 + 44]


(* the slice deletions a step issues, as positions of its output *)
DeletesOfStep == {i \in 1..Len(sent') : sent'[i].type = "delete"}

(* C22: the control loop never deletes a slice.  No step issues a slice    *)
(* deletion, no step removes a slice from the provisioned ones, and after  *)
(* every step each provisioned slice holds a positive quantum, its share   *)
(* of total_quantum.                                                       *)
C22_SlicesOnlyGrow ==
    [][/\ DeletesOfStep = {}
       /\ DOMAIN wifi_slices \subseteq DOMAIN wifi_slices'
       /\ \A key \in DOMAIN wifi_slices' :
             RatLess(<<0, 1>>, wifi_slices'[key].quantum)]_vars

(* the slice made for code 44 is still provisioned, with a share, after a  *)
(* run in which 44 was reported with a count that no longer qualifies      *)
C22_Witness ==
    /\ last = "response"
    /\ ran
    /\ StrOf(44) \in DOMAIN wifi_slices
    /\ RatLess(<<0, 1>>, wifi_slices[StrOf(44)].quantum)
    /\ QuantumTotal(DOMAIN wifi_slices) = <<total_quantum, 1>>
    /\ \E i \in 1..Len(classified) :
          classified[i].k = 44 /\ classified[i].v[1] <= ACTIVATION_THRESHOLD
    /\ CandidateFor(44) = {}

====
